---- MODULE Spec2Model ----
(***************************************************************************)
(* Model of the weather_code_lab repository:                               *)
(*   - the region (bounding box) resolver and its persisted cache          *)
(*     bounding_box.json (src/tutorials/metar/latest_ai_assist.py),        *)
(*   - the METAR block parsers: the sequential loop of                     *)
(*     MetarReport._process_metar_data (latest_ai_assist.py) and the       *)
(*     ProcessPoolExecutor map of MetarData.get_data (src/test.py),        *)
(*   - MetarPlot.plot_observations,                                        *)
(*   - convert_to_decimal and the station catalog loader station_data_us   *)
(*     (src/helpers.py).                                                   *)
(*                                                                         *)
(* Text is modelled as a sequence of one-character strings.  Floating      *)
(* point numbers are modelled by integers: a collaborator reply carries    *)
(* integer literals, and a decimal coordinate is kept as its exact number  *)
(* of sixtieths of a degree.                                               *)
(***************************************************************************)
EXTENDS Integers, Sequences, FiniteSets, TLC

VARIABLES
    \* ---- region resolver, one resolution at a time
    file,        \* bounding_box.json: [exists, data], data maps key -> list
    calls,       \* collaborator invocations so far, per lower-cased key
    last,        \* the latest completed _get_bounding_box call
    nres,        \* number of resolutions run so far
    \* ---- region resolver, concurrent processes
    pc,          \* per process: position inside _get_bounding_box
    plocation,   \* per process: self.location
    pbbox,       \* per process: self.bounding_box
    pjson,       \* per process: the local bbox_json about to be dumped
    content,     \* what the bytes of the file are: "json", "empty", "garbage"
    \* ---- external METAR decoder
    parser_raises, \* parse_metar_file raises on text it cannot decode
    \* ---- MetarData.get_data (process pool)
    raw_data,    \* the report blocks of the bulletin
    max_workers, \* size of the pool
    futures,     \* per block: the state and result of its task
    worker,      \* per worker: the block it is decoding, 0 when idle
    pool_pc,     \* "running", "done" or "raised"
    pool_df,     \* self.df once assembled
    \* ---- MetarReport.get_metar_report (sequential loop)
    raw_data_blobs, \* the report blocks of the bulletin
    report_pc,   \* "fetched", "done" or "raised"
    report_in,   \* the region-filtered frame handed to drop_duplicates
    report_df,   \* self.df
    bounding_box, \* self.bounding_box
    \* ---- MetarPlot.plot_observations
    area_sqmi,   \* geodesic area of the region, square statute miles
    metar_data,  \* the MetarReport handed to MetarPlot: [df, bounding_box]
    obs,         \* the PlotObs and MapPanel handed to the renderer
    \* ---- convert_to_decimal
    coord,       \* the argument, a text
    coord_src,   \* the degrees, minutes and hemisphere the text was written from
    decimal,     \* the call's outcome
    \* ---- station_data_us
    data,        \* response.text, the station table
    filters,     \* the arguments metar, nexrad, rawinsonde, office_type, states
    stations     \* the call's outcome: the exception raised or the frame

resolverVars == <<file, calls, last, nres>>
raceVars == <<pc, plocation, pbbox, pjson, content>>
poolVars == <<raw_data, max_workers, futures, worker, pool_pc, pool_df>>
reportVars == <<raw_data_blobs, report_pc, report_in, report_df, bounding_box>>
plotVars == <<area_sqmi, metar_data, obs>>
coordVars == <<coord, coord_src, decimal>>
stationVars == <<data, filters, stations>>
\* everything outside the region resolver
parserVars == <<poolVars, reportVars, plotVars, coordVars, stationVars,
               parser_raises>>
vars == <<file, calls, last, nres, pc, plocation, pbbox, pjson, content,
          parser_raises, raw_data, max_workers, futures, worker, pool_pc,
          pool_df, raw_data_blobs, report_pc, report_in, report_df,
          bounding_box, area_sqmi, metar_data, obs, coord, coord_src, decimal,
          data, filters, stations>>

----------------------------------------------------------------------------
(* Text helpers *)

Digits == {"0", "1", "2", "3", "4", "5", "6", "7", "8", "9"}

DigitVal(c) ==
    CASE c = "0" -> 0 [] c = "1" -> 1 [] c = "2" -> 2 [] c = "3" -> 3
      [] c = "4" -> 4 [] c = "5" -> 5 [] c = "6" -> 6 [] c = "7" -> 7
      [] c = "8" -> 8 [] c = "9" -> 9

\* int("123"): the value of a non-empty run of decimal digits
RECURSIVE DigitsToInt(_)
DigitsToInt(s) ==
    IF Len(s) = 0 THEN 0
    ELSE 10 * DigitsToInt(SubSeq(s, 1, Len(s) - 1)) + DigitVal(s[Len(s)])

\* the white space of the texts of this model: the blank and the line feed
Whitespace == {" ", "\n"}

\* str.strip(): leading and trailing white space removed
RECURSIVE Strip(_)
Strip(s) ==
    IF Len(s) = 0 THEN s
    ELSE IF s[1] \in Whitespace THEN Strip(Tail(s))
    ELSE IF s[Len(s)] \in Whitespace THEN Strip(SubSeq(s, 1, Len(s) - 1))
    ELSE s

\* str.lower() on the letters the identifiers and the office types use
LowerChar(c) ==
    CASE c = "N" -> "n" [] c = "J" -> "j" [] c = "P" -> "p" [] c = "A" -> "a"
      [] c = "W" -> "w" [] c = "F" -> "f" [] c = "O" -> "o"
      [] OTHER -> c

Lower(s) == [i \in 1..Len(s) |-> LowerChar(s[i])]

\* str.split(","): the fields between commas; "" splits into [""]
RECURSIVE Split(_)
Split(s) ==
    IF \E i \in 1..Len(s) : s[i] = ","
    THEN LET i == CHOOSE j \in 1..Len(s) :
                    s[j] = "," /\ \A k \in 1..(j - 1) : s[k] # ","
         IN <<SubSeq(s, 1, i - 1)>> \o Split(SubSeq(s, i + 1, Len(s)))
    ELSE <<s>>

\* float(field) accepts surrounding blanks, an optional sign and digits
\* (integer literals only in this model); anything else raises ValueError
IsFloat(field) ==
    LET t == Strip(field)
        body == IF Len(t) > 0 /\ t[1] = "-" THEN Tail(t) ELSE t
    IN Len(body) > 0 /\ \A i \in 1..Len(body) : body[i] \in Digits

ToFloat(field) ==
    LET t == Strip(field)
    IN IF t[1] = "-" THEN 0 - DigitsToInt(Tail(t)) ELSE DigitsToInt(t)

----------------------------------------------------------------------------
(* Region resolver: MetarReport._load_bounding_box, _write_bounding_box,   *)
(* _get_bounding_box                                                       *)

EmptyDict == [k \in {} |-> <<>>]

NoFile == [exists |-> FALSE, data |-> EmptyDict]

\* bbox_json[key] = value
Put(d, k, v) == [x \in DOMAIN d \cup {k} |-> IF x = k THEN v ELSE d[x]]

\* a lookup that forgets to lower-case the identifier
LoadBoundingBoxCaseSensitive(f, location) ==
    IF f.exists /\ location \in DOMAIN f.data
    THEN [none |-> FALSE, bbox |-> f.data[location]]
    ELSE [none |-> TRUE, bbox |-> <<>>]

\* _load_bounding_box: the cached list, or None
LoadBoundingBox(f, location) ==
    IF f.exists /\ Lower(location) \in DOMAIN f.data
    THEN [none |-> FALSE, bbox |-> f.data[Lower(location)]]
    ELSE [none |-> TRUE, bbox |-> <<>>]

\* a write that always takes the branch of a missing file
MergedJsonOverwrite(f, location, bbox) == Put(EmptyDict, Lower(location), bbox)

\* the mapping _write_bounding_box dumps: the loaded file with the own key
\* set when the file exists, a one-entry mapping otherwise

MergedJson(f, location, bbox) ==
    IF f.exists
    THEN Put(f.data, Lower(location), bbox)
    ELSE Put(EmptyDict, Lower(location), bbox)

WriteBoundingBox(f, location, bbox) ==
    [exists |-> TRUE, data |-> MergedJson(f, location, bbox)]

\* response...content.split(",") and [float(coord) for coord in bbox]
ParseReply(reply) ==
    LET bbox == Split(reply)
    IN IF \A i \in 1..Len(bbox) : IsFloat(bbox[i])
       THEN [raised |-> FALSE, bbox |-> [i \in 1..Len(bbox) |-> ToFloat(bbox[i])]]
       ELSE [raised |-> TRUE, bbox |-> <<>>]

\* _get_bounding_box as one call: what it leaves in self.bounding_box and in
\* the file, whether it raised and whether it invoked the collaborator
GetBoundingBox(f, location, write_bounding_box, reply) ==
    LET loaded == LoadBoundingBox(f, location)
        parsed == ParseReply(reply)
    IN IF ~loaded.none
       THEN [raised |-> FALSE, invoked |-> FALSE, bounding_box |-> loaded.bbox,
             file |-> IF write_bounding_box
                      THEN WriteBoundingBox(f, location, loaded.bbox) ELSE f]
       ELSE IF parsed.raised
       THEN [raised |-> TRUE, invoked |-> TRUE, bounding_box |-> <<>>, file |-> f]
       ELSE [raised |-> FALSE, invoked |-> TRUE, bounding_box |-> parsed.bbox,
             file |-> IF write_bounding_box
                      THEN WriteBoundingBox(f, location, parsed.bbox) ELSE f]

----------------------------------------------------------------------------
(* Inputs of the resolver *)

MaxResolves == 3

\* identifiers passed as MetarReport(location=...)
Locations == { <<"N", "J">>, <<"n", "j">>, <<"P", "A">> }

Keys == { Lower(l) : l \in Locations }

\* replies of the geocoding collaborator (response.choices[0].message.content)
ReplyGood == <<"1", ",", "3", ",", "2", ",", "4">>
ReplyWide == <<"-", "5", ",", " ", "5", ",", "0", ",", "9">>
ReplyOrder == <<"3", ",", "1", ",", "2", ",", "4">>
ReplyThree == <<"1", ",", "3", ",", "2">>
ReplyFive == <<"1", ",", "3", ",", "2", ",", "4", ",", "5">>
ReplyText == <<"1", ",", "x", ",", "2", ",", "4">>

Replies == {ReplyGood, ReplyWide, ReplyOrder, ReplyThree, ReplyFive, ReplyText}

NoCall ==
    [resolved |-> FALSE, location |-> <<>>, write_bounding_box |-> FALSE,
     before |-> NoFile, calls_before |-> 0, raised |-> FALSE,
     invoked |-> FALSE, bounding_box |-> <<>>]

RaceIdle ==
    /\ pc = <<>>
    /\ plocation = <<>>
    /\ pbbox = <<>>
    /\ pjson = <<>>
    /\ content = "json"

ResolverIdle ==
    /\ calls = [k \in Keys |-> 0]
    /\ last = NoCall
    /\ nres = 0

PoolIdle ==
    /\ raw_data = <<>>
    /\ max_workers = 0
    /\ futures = <<>>
    /\ worker = <<>>
    /\ pool_pc = "idle"
    /\ pool_df = <<>>

ReportIdle ==
    /\ raw_data_blobs = <<>>
    /\ report_pc = "idle"
    /\ report_in = <<>>
    /\ report_df = <<>>
    /\ bounding_box = <<>>

PlotIdle ==
    /\ area_sqmi = 0
    /\ metar_data = <<>>
    /\ obs = <<>>

CoordIdle ==
    /\ coord = <<>>
    /\ coord_src = <<>>
    /\ decimal = <<>>

StationIdle ==
    /\ data = <<>>
    /\ filters = <<>>
    /\ stations = <<>>

ParserIdle ==
    /\ PoolIdle
    /\ ReportIdle
    /\ PlotIdle
    /\ CoordIdle
    /\ StationIdle
    /\ parser_raises = FALSE

----------------------------------------------------------------------------
(* SpecResolve: resolutions run one after the other, in any number of      *)
(* sessions.  A MetarReport keeps nothing between two resolutions          *)
(* (_get_bounding_box overwrites self.bounding_box with what the file      *)
(* holds), so a session is its location and its write_bounding_box flag.   *)

InitResolve ==
    /\ file = NoFile
    /\ ResolverIdle
    /\ RaceIdle
    /\ ParserIdle

Resolve(location, write_bounding_box, reply) ==
    /\ nres < MaxResolves
    /\ LET r == GetBoundingBox(file, location, write_bounding_box, reply)
       IN /\ file' = r.file
          /\ calls' = IF r.invoked
                      THEN [calls EXCEPT ![Lower(location)] = @ + 1]
                      ELSE calls
          /\ last' = [resolved |-> TRUE, location |-> location,
                      write_bounding_box |-> write_bounding_box,
                      before |-> file, calls_before |-> calls[Lower(location)],
                      raised |-> r.raised, invoked |-> r.invoked,
                      bounding_box |-> r.bounding_box]
    /\ nres' = nres + 1
    /\ UNCHANGED <<raceVars, parserVars>>

NextResolve ==
    \E location \in Locations, write_bounding_box \in BOOLEAN, reply \in Replies :
        Resolve(location, write_bounding_box, reply)

SpecResolve == InitResolve /\ [][NextResolve]_vars

LastKey == Lower(last.location)

Cached(f, k) == f.exists /\ k \in DOMAIN f.data

----------------------------------------------------------------------------
(* Claims on SpecResolve *)

C3_OnlyOwnKeyChanges ==
    last.resolved =>
        /\ \A k \in DOMAIN last.before.data :
              k # LastKey => Cached(file, k) /\ file.data[k] = last.before.data[k]
        /\ DOMAIN file.data \subseteq DOMAIN last.before.data \cup {LastKey}

\* C3 witness: a new tuple is stored while the file holds another key.
C3_Witness ==
    /\ last.resolved
    /\ last.write_bounding_box
    /\ last.invoked
    /\ ~last.raised
    /\ \E k \in DOMAIN last.before.data : k # LastKey
    /\ file.data[LastKey] = last.bounding_box

\* C4 (as stated): a resolution that does not fail leaves exactly four
\* numbers with west < east and south < north, whether they come from the
\* collaborator or from the file.
C4_ResolvedIsValidRegion ==
    (last.resolved /\ ~last.raised) =>
        /\ Len(last.bounding_box) = 4
        /\ last.bounding_box[1] < last.bounding_box[2]
        /\ last.bounding_box[3] < last.bounding_box[4]

\* C15 (as stated): after any sequence of resolutions every entry of the file
\* is keyed by a lower-cased identifier and holds exactly four numbers with
\* west < east and south < north, and a resolution that raises leaves the
\* file exactly as it was.
C15_CacheEntriesValid ==
    /\ \A k \in DOMAIN file.data :
          /\ k = Lower(k)
          /\ Len(file.data[k]) = 4
          /\ file.data[k][1] < file.data[k][2]
          /\ file.data[k][3] < file.data[k][4]
    /\ (last.resolved /\ last.raised) => file = last.before

----------------------------------------------------------------------------
(* SpecRace: several runs of the script resolve at the same time against   *)
(* the same bounding_box.json, each with write_bounding_box=True as the    *)
(* script sets it.  The steps are the file operations of _get_bounding_box *)
(* and _write_bounding_box; nothing in the code locks the file.            *)
(* open(..., "w") truncates the file, json.dump and the close fill it: a   *)
(* json.load in between finds no JSON and raises.  A close that lands on   *)
(* what another writer has closed meanwhile leaves the own text, or, when  *)
(* the own text is the shorter one, the tail of the other after it.        *)

NumProcs == 2

Procs == 1..NumProcs

Readable == ~file.exists \/ content = "json"

InitRace ==
    /\ file = NoFile
    /\ ResolverIdle
    /\ content = "json"
    /\ pc = [p \in Procs |-> "load"]
    /\ plocation \in [Procs -> Locations]
    /\ pbbox = [p \in Procs |-> <<>>]
    /\ pjson = [p \in Procs |-> EmptyDict]
    /\ ParserIdle

\* self.bounding_box = self._load_bounding_box()
Load(p) ==
    /\ pc[p] = "load"
    /\ IF ~Readable
       THEN /\ pc' = [pc EXCEPT ![p] = "raised"]
            /\ UNCHANGED pbbox
       ELSE LET loaded == LoadBoundingBox(file, plocation[p])
            IN /\ pbbox' = [pbbox EXCEPT ![p] = loaded.bbox]
               /\ pc' = [pc EXCEPT ![p] = IF loaded.none THEN "call" ELSE "write"]
    /\ UNCHANGED <<file, content, plocation, pjson, calls, last, nres,
                   parserVars>>

\* client.chat.completions.create(...) and the parse of its reply
Call(p, reply) ==
    /\ pc[p] = "call"
    /\ LET parsed == ParseReply(reply)
       IN /\ pbbox' = [pbbox EXCEPT ![p] = parsed.bbox]
          /\ pc' = [pc EXCEPT ![p] = IF parsed.raised THEN "raised" ELSE "write"]
    /\ calls' = [calls EXCEPT ![Lower(plocation[p])] = @ + 1]
    /\ UNCHANGED <<file, content, plocation, pjson, last, nres,
                   parserVars>>

\* _write_bounding_box: os.path.exists, json.load, bbox_json[key] = ...
WriteRead(p) ==
    /\ pc[p] = "write"
    /\ IF ~Readable
       THEN /\ pc' = [pc EXCEPT ![p] = "raised"]
            /\ UNCHANGED pjson
       ELSE /\ pjson' = [pjson EXCEPT ![p] = MergedJson(file, plocation[p], pbbox[p])]
            /\ pc' = [pc EXCEPT ![p] = "open"]
    /\ UNCHANGED <<file, content, plocation, pbbox, calls, last, nres,
                   parserVars>>

\* _write_bounding_box: open("bounding_box.json", "w")
Truncate(p) ==
    /\ pc[p] = "open"
    /\ file' = [exists |-> TRUE, data |-> EmptyDict]
    /\ content' = "empty"
    /\ pc' = [pc EXCEPT ![p] = "dump"]
    /\ UNCHANGED <<plocation, pbbox, pjson, calls, last, nres,
                   parserVars>>

\* _write_bounding_box: json.dump(bbox_json, f, indent=4) and the close
Dump(p) ==
    /\ pc[p] = "dump"
    /\ \/ /\ file' = [exists |-> TRUE, data |-> pjson[p]]
          /\ content' = "json"
       \/ /\ content # "empty"
          /\ file' = [exists |-> TRUE, data |-> EmptyDict]
          /\ content' = "garbage"
    /\ pc' = [pc EXCEPT ![p] = "done"]
    /\ UNCHANGED <<plocation, pbbox, pjson, calls, last, nres,
                   parserVars>>

NextRace ==
    \E p \in Procs :
        \/ Load(p)
        \/ \E reply \in Replies : Call(p, reply)
        \/ WriteRead(p)
        \/ Truncate(p)
        \/ Dump(p)

SpecRace == InitRace /\ [][NextRace]_vars

----------------------------------------------------------------------------
(* Claims on SpecRace *)

\* C1 (as stated): once two concurrent resolutions for identifiers with
\* different keys have both completed, the file holds the entry of each.
C1_NoLostWrite ==
    \A p, q \in Procs :
        (/\ Lower(plocation[p]) # Lower(plocation[q])
         /\ pc[p] = "done"
         /\ pc[q] = "done")
        => /\ content = "json"
           /\ Cached(file, Lower(plocation[p]))
           /\ Cached(file, Lower(plocation[q]))

----------------------------------------------------------------------------
(* Decoding report blocks.  A block is the sequence of its lines           *)
(* (text.split("\n")), a line the sequence of its blank-separated words,   *)
(* with " " standing for blanks at an end of the line.  parse_metar_file   *)
(* is MetPy's: it strips each line, decodes station, position (from its    *)
(* station table) and the observed values, and keeps no copy of the text.  *)
(* What it does with text it cannot decode is not fixed by this            *)
(* repository: it raises (strict) or returns a frame without rows.         *)

Stations == {"KA", "KB", "KC", "KD"}

Temps == {"T1", "T2"}

\* MetPy's station table: latitude and longitude of a station
StationInfo(id) ==
    CASE id = "KA" -> [latitude |-> 2, longitude |-> 1]
      [] id = "KB" -> [latitude |-> 1, longitude |-> 2]
      [] id = "KC" -> [latitude |-> 3, longitude |-> 2]
      [] id = "KD" -> [latitude |-> 3, longitude |-> 4]

\* parse_metar_file(io.StringIO(line))
ParseMetarFile(line, strict) ==
    LET t == Strip(line)
    IN IF Len(t) = 2 /\ t[1] \in Stations /\ t[2] \in Temps
       THEN [raised |-> FALSE,
             rows |-> << [station_id |-> t[1],
                          latitude |-> StationInfo(t[1]).latitude,
                          longitude |-> StationInfo(t[1]).longitude,
                          air_temperature |-> t[2]] >>]
       ELSE [raised |-> strict, rows |-> <<>>]

\* _proces_data(text): text.split("\n")[1] raises IndexError on one line
ProcesData(text, strict) ==
    IF Len(text) < 2
    THEN [raised |-> TRUE, rows |-> <<>>]
    ELSE ParseMetarFile(text[2], strict)

\* a drop_duplicates keyed on the station alone
RECURSIVE DropDuplicatesByStation(_)
DropDuplicatesByStation(df) ==
    IF Len(df) = 0 THEN <<>>
    ELSE LET front == DropDuplicatesByStation(SubSeq(df, 1, Len(df) - 1))
             row == df[Len(df)]
         IN IF \E i \in 1..Len(front) : front[i].station_id = row.station_id
            THEN front
            ELSE Append(front, row)

\* DataFrame.drop_duplicates(): of the rows equal in every column the first
\* is kept
RECURSIVE DropDuplicates(_)
DropDuplicates(df) ==
    IF Len(df) = 0 THEN <<>>
    ELSE LET front == DropDuplicates(SubSeq(df, 1, Len(df) - 1))
             row == df[Len(df)]
         IN IF \E i \in 1..Len(front) : front[i] = row
            THEN front
            ELSE Append(front, row)

RowSet(df) == { df[i] : i \in 1..Len(df) }

\* report blocks
BlockA == << <<"D1">>, <<"KA", "T1">> >>
BlockABlank == << <<"D1">>, <<"KA", "T1", " ">> >>
BlockB == << <<"D1">>, <<"KB", "T1">> >>
BlockC == << <<"D1">>, <<"KC", "T2">> >>
BlockD == << <<"D1">>, <<"KD", "T2">> >>
BlockALater == << <<"D2">>, <<"KA", "T1">> >>
BlockBadDate == << <<"??">>, <<"KC", "T1">> >>
BlockOneLine == << <<"D1">> >>
BlockGarbage == << <<"D1">>, <<"??">> >>

\* all sequences over S of length lo..hi
SeqsOf(S, lo, hi) == UNION { [1..n -> S] : n \in lo..hi }

----------------------------------------------------------------------------
(* SpecPool: MetarData.get_data of src/test.py.  executor.map submits one  *)
(* task per block; idle workers take the queued tasks in order and finish  *)
(* them in any order; list(...) collects the results in the order of the   *)
(* blocks and re-raises the exception of a task that raised.               *)

MaxBlocks == 3

MaxWorkers == 2

PoolBlocks == {BlockA, BlockABlank, BlockC, BlockOneLine, BlockGarbage}

Queued == [state |-> "queued", raised |-> FALSE, rows |-> <<>>]

InitPool ==
    /\ file = NoFile
    /\ ResolverIdle
    /\ RaceIdle
    /\ ReportIdle
    /\ PlotIdle
    /\ CoordIdle
    /\ StationIdle
    /\ parser_raises \in BOOLEAN
    /\ raw_data \in SeqsOf(PoolBlocks, 1, MaxBlocks)
    /\ max_workers \in 1..MaxWorkers
    /\ futures = [i \in 1..Len(raw_data) |-> Queued]
    /\ worker = [w \in 1..max_workers |-> 0]
    /\ pool_pc = "running"
    /\ pool_df = <<>>

notPool == <<resolverVars, raceVars, reportVars, plotVars, coordVars,
             stationVars, parser_raises>>

\* an idle worker takes the first task still queued
Take(w) ==
    /\ pool_pc = "running"
    /\ worker[w] = 0
    /\ \E i \in 1..Len(futures) :
          /\ futures[i].state = "queued"
          /\ \A j \in 1..(i - 1) : futures[j].state # "queued"
          /\ futures' = [futures EXCEPT ![i].state = "running"]
          /\ worker' = [worker EXCEPT ![w] = i]
    /\ UNCHANGED <<raw_data, max_workers, pool_pc, pool_df, notPool>>

\* the worker returns from _proces_data
Finish(w) ==
    /\ pool_pc = "running"
    /\ worker[w] # 0
    /\ LET r == ProcesData(raw_data[worker[w]], parser_raises)
       IN futures' = [futures EXCEPT ![worker[w]] =
                         [state |-> "finished", raised |-> r.raised, rows |-> r.rows]]
    /\ worker' = [worker EXCEPT ![w] = 0]
    /\ UNCHANGED <<raw_data, max_workers, pool_pc, pool_df, notPool>>

RECURSIVE Concat(_)
Concat(dataframes) ==
    IF Len(dataframes) = 0 THEN <<>>
    ELSE Head(dataframes) \o Concat(Tail(dataframes))

\* list(executor.map(...)), pd.concat(...).drop_duplicates()
Collect ==
    /\ pool_pc = "running"
    /\ \A i \in 1..Len(futures) : futures[i].state = "finished"
    /\ IF \E i \in 1..Len(futures) : futures[i].raised
       THEN /\ pool_pc' = "raised"
            /\ UNCHANGED pool_df
       ELSE /\ pool_pc' = "done"
            /\ pool_df' = DropDuplicates(
                              Concat([i \in 1..Len(futures) |-> futures[i].rows]))
    /\ UNCHANGED <<raw_data, max_workers, futures, worker, notPool>>

NextPool ==
    \/ \E w \in 1..max_workers : Take(w)
    \/ \E w \in 1..max_workers : Finish(w)
    \/ Collect

SpecPool == InitPool /\ [][NextPool]_vars

----------------------------------------------------------------------------
(* Claims on SpecPool *)

\* the blocks that decode, and the observations they hold
WellFormed(text) == Len(text) >= 2 /\ Len(ParseMetarFile(text[2], TRUE).rows) > 0

\* C5 (as stated): a block that fails to decode yields an empty result for
\* that block only: the batch completes, and the observations of every
\* well-formed block are in the assembled result.
C5_FailedBlockIsContained ==
    pool_pc \in {"done", "raised"} =>
        /\ pool_pc = "done"
        /\ \A i \in 1..Len(raw_data) :
              WellFormed(raw_data[i]) =>
                  ParseMetarFile(raw_data[i][2], TRUE).rows[1] \in RowSet(pool_df)

\* C6 (as stated): whatever the pool size and the order in which the workers
\* finish, the assembled set is the one a pool of size 1 yields, the
\* observations of the well-formed blocks: each malformed block removes
\* itself only (48 of 50 with 2 malformed).
C6_PoolSizeEquivalent ==
    pool_pc \in {"done", "raised"} =>
        /\ pool_pc = "done"
        /\ RowSet(pool_df) =
              { ParseMetarFile(raw_data[i][2], TRUE).rows[1] :
                    i \in { j \in 1..Len(raw_data) : WellFormed(raw_data[j]) } }
        /\ Len(pool_df) = Cardinality(RowSet(pool_df))

----------------------------------------------------------------------------
(* SpecReport: MetarReport.get_metar_report of latest_ai_assist.py, run as *)
(* the script runs it: location "NJ", write_bounding_box=True.             *)

MaxBlobs == 3

ReportBlocks ==
    {BlockA, BlockABlank, BlockB, BlockC, BlockD, BlockALater, BlockBadDate,
     BlockOneLine, BlockGarbage}

ReportLocation == <<"N", "J">>

Dates == { <<"D1">>, <<"D2">> }

\* the body of the try: of one blob: [raised, rows]
ProcessBlob(blob, strict) ==
    IF blob[1] \notin Dates
    THEN [raised |-> TRUE, rows |-> <<>>]              \* strptime: ValueError
    ELSE IF Len(blob) < 2
    THEN [raised |-> TRUE, rows |-> <<>>]              \* lines[1]: IndexError
    ELSE LET r == ParseMetarFile(blob[2], strict)
         IN [raised |-> r.raised,
             rows |-> [i \in 1..Len(r.rows) |->
                          [station_id |-> r.rows[i].station_id,
                           latitude |-> r.rows[i].latitude,
                           longitude |-> r.rows[i].longitude,
                           air_temperature |-> r.rows[i].air_temperature,
                           report_time |-> blob[1]]]]

\* the for loop over self.raw_data_blobs, from the frame df on
RECURSIVE BlobLoop(_, _, _)
BlobLoop(blobs, df, strict) ==
    IF Len(blobs) = 0 THEN df
    ELSE LET r == ProcessBlob(Head(blobs), strict)
         IN IF r.raised
            THEN BlobLoop(Tail(blobs), df, strict)
            ELSE BlobLoop(Tail(blobs),
                          IF Len(df) = 0 THEN r.rows ELSE df \o r.rows, strict)

\* a between that leaves the bounds out
BetweenExclusive(x, left, right) == left < x /\ x < right

\* Series.between(left, right): both bounds included
Between(x, left, right) == left <= x /\ x <= right

\* the two filters on latitude and longitude
RegionFilter(df, bbox) ==
    LET InLat(row) == Between(row.latitude, bbox[3], bbox[4])
        InLon(row) == Between(row.longitude, bbox[1], bbox[2])
    IN SelectSeq(SelectSeq(df, InLat), InLon)

InitReport ==
    /\ file = NoFile
    /\ content = "json"
    /\ ResolverIdle
    /\ pc = <<>>
    /\ plocation = <<>>
    /\ pbbox = <<>>
    /\ pjson = <<>>
    /\ PoolIdle
    /\ PlotIdle
    /\ CoordIdle
    /\ StationIdle
    /\ parser_raises \in BOOLEAN
    /\ raw_data_blobs \in SeqsOf(ReportBlocks, 1, MaxBlobs)
    /\ report_pc = "fetched"
    /\ report_in = <<>>
    /\ report_df = <<>>
    /\ bounding_box = <<>>

\* _process_metar_data: the loop, _get_bounding_box, the filters and
\* drop_duplicates.  A frame without rows has no "latitude" column
\* (KeyError); a bounding box of fewer than four numbers has no [3]
\* (IndexError).
ProcessMetarData(reply) ==
    /\ report_pc = "fetched"
    /\ LET df == BlobLoop(raw_data_blobs, <<>>, parser_raises)
           r == GetBoundingBox(file, ReportLocation, TRUE, reply)
       IN /\ file' = r.file
          /\ bounding_box' = r.bounding_box
          /\ IF r.raised \/ Len(df) = 0 \/ Len(r.bounding_box) < 4
             THEN /\ report_pc' = "raised"
                  /\ UNCHANGED <<report_in, report_df>>
             ELSE /\ report_pc' = "done"
                  /\ report_in' = RegionFilter(df, r.bounding_box)
                  /\ report_df' = DropDuplicates(RegionFilter(df, r.bounding_box))
    /\ UNCHANGED <<calls, last, nres, raceVars, poolVars, plotVars, coordVars,
                   stationVars, parser_raises, raw_data_blobs>>

NextReport == \E reply \in Replies : ProcessMetarData(reply)

SpecReport == InitReport /\ [][NextReport]_vars

----------------------------------------------------------------------------
(* Claims on SpecReport *)

\* the blobs that decode, and the observation each holds
Decoded == { i \in 1..Len(raw_data_blobs) :
                 /\ ~ProcessBlob(raw_data_blobs[i], parser_raises).raised
                 /\ Len(ProcessBlob(raw_data_blobs[i], parser_raises).rows) > 0 }

RowOf(i) == ProcessBlob(raw_data_blobs[i], parser_raises).rows[1]

InRegion(row) ==
    /\ bounding_box[3] <= row.latitude
    /\ row.latitude <= bounding_box[4]
    /\ bounding_box[1] <= row.longitude
    /\ row.longitude <= bounding_box[2]

\* the uniqueness key of the data model: station, report timestamp, raw text
KeyOf(i) == <<RowOf(i).station_id, raw_data_blobs[i][1], raw_data_blobs[i][2]>>

\* C7 (as stated): the dedupe collapses on (station identifier, report
\* timestamp, raw report text): one record per key, and observations whose
\* keys differ are all retained.
C7_OneRecordPerKey ==
    report_pc = "done" =>
        Len(report_df) = Cardinality({ KeyOf(i) : i \in { j \in Decoded : InRegion(RowOf(j)) } })

\* C7 (amended): the dedupe collapses on the whole decoded row: rows equal
\* in every column appear once, rows that differ in a column are all
\* retained, for every order of the input, and the dedupe of its own output
\* changes nothing.
C7_DedupeIsSetCollapse ==
    report_pc = "done" =>
        /\ \A i, j \in 1..Len(report_df) : report_df[i] = report_df[j] => i = j
        /\ RowSet(report_df) = RowSet(report_in)
        /\ DropDuplicates(report_df) = report_df
        /\ \A f \in Permutations(1..Len(report_in)) :
              LET shuffled == DropDuplicates([i \in 1..Len(report_in) |-> report_in[f[i]]])
              IN /\ RowSet(shuffled) = RowSet(report_df)
                 /\ Len(shuffled) = Len(report_df)

\* C7 witness: a duplicate row is collapsed while two different rows stay.
C7_Witness ==
    /\ report_pc = "done"
    /\ Len(report_df) < Len(report_in)
    /\ Len(report_df) >= 2

\* C8: an observation is in the assembled result if and only if its block
\* decoded and south <= latitude <= north and west <= longitude <= east.
C8_RegionFilterInclusive ==
    report_pc = "done" =>
        /\ \A i \in Decoded : (RowOf(i) \in RowSet(report_df)) <=> InRegion(RowOf(i))
        /\ RowSet(report_df) \subseteq { RowOf(i) : i \in Decoded }

\* C8 witness: an observation on the south and west bounds is kept, one a
\* degree south of the region and one a degree east of it are dropped.
C8_Witness ==
    /\ report_pc = "done"
    /\ \E row \in RowSet(report_df) :
          row.latitude = bounding_box[3] /\ row.longitude = bounding_box[1]
    /\ \E i \in Decoded :
          RowOf(i).latitude = bounding_box[3] - 1 /\ RowOf(i) \notin RowSet(report_df)
    /\ \E i \in Decoded :
          RowOf(i).longitude = bounding_box[2] + 1 /\ RowOf(i) \notin RowSet(report_df)

----------------------------------------------------------------------------
(* SpecPlot: MetarPlot.plot_observations on a MetarReport.  The geodesic   *)
(* area of the region is an input of the model only: plot_observations     *)
(* computes no area.  reduce_points is kept in hundredths.                 *)

MaxRows == 2

Areas == {0, 20000, 20001, 50000, 50001, 200000, 200001, 500000, 500001,
          900000, 900001, 1500000, 1500001}

\* the lists self.bounding_box can hold once _process_metar_data has assembled
\* a frame: four numbers or more
BoundingBoxes ==
    { ParseReply(reply).bbox :
          reply \in { r \in Replies : ~ParseReply(r).raised /\ Len(ParseReply(r).bbox) >= 4 } }

InitPlot ==
    /\ file = NoFile
    /\ ResolverIdle
    /\ RaceIdle
    /\ PoolIdle
    /\ ReportIdle
    /\ CoordIdle
    /\ StationIdle
    /\ parser_raises = FALSE
    /\ area_sqmi \in Areas
    /\ metar_data \in [df_is_none : BOOLEAN, rows : 0..MaxRows,
                       bounding_box : BoundingBoxes]
    /\ metar_data.df_is_none => metar_data.rows = 0
    /\ obs = [pc |-> "new", reduce_points |-> 0, fields |-> <<>>, area |-> <<>>]

\* plot_observations: _get_plot_df fails on a df that is None, and the
\* file name cannot be formatted from a frame without rows
PlotObservations ==
    /\ obs.pc = "new"
    /\ IF metar_data.df_is_none \/ metar_data.rows = 0
       THEN obs' = [obs EXCEPT !.pc = "raised"]
       ELSE obs' = [pc |-> "saved",
                    reduce_points |-> 0,
                    fields |-> <<"air_temperature", "dew_point_temperature",
                                 "altimeter", "cloud_coverage">>,
                    area |-> metar_data.bounding_box]
    /\ UNCHANGED <<resolverVars, raceVars, poolVars, reportVars, coordVars,
                   stationVars, parser_raises, area_sqmi, metar_data>>

NextPlot == PlotObservations

SpecPlot == InitPlot /\ [][NextPlot]_vars

----------------------------------------------------------------------------
(* Claims on SpecPlot *)

\* the tier table of the density planner, in hundredths
TierReduction(area) ==
    CASE area <= 20000 -> 0
      [] area > 20000 /\ area <= 50000 -> 20
      [] area > 50000 /\ area <= 200000 -> 50
      [] area > 200000 /\ area <= 500000 -> 60
      [] area > 500000 /\ area <= 900000 -> 70
      [] area > 900000 /\ area <= 1500000 -> 80
      [] OTHER -> 100

\* C9 (as stated): the plot handed to the renderer takes its point
\* reduction from the first tier whose upper bound is >= the area, and
\* carries the station-id label exactly when the area is <= 200,000.
C9_TieredReduction ==
    obs.pc = "saved" =>
        /\ obs.reduce_points = TierReduction(area_sqmi)
        /\ (\E i \in 1..Len(obs.fields) : obs.fields[i] = "station_id")
              <=> area_sqmi <= 200000

----------------------------------------------------------------------------
(* convert_to_decimal of src/helpers.py.  The decimal degrees are kept as  *)
(* the exact number of sixtieths (degrees + minutes / 60.0, times 60).     *)

\* the length of the run of characters of class at position i of s
RECURSIVE RunLen(_, _, _)
RunLen(s, i, class) ==
    IF i <= Len(s) /\ s[i] \in class THEN 1 + RunLen(s, i + 1, class) ELSE 0

\* re.match(r"(\d+)\s+(\d+)([NSEW])", parts): each greedy run is the
\* maximal one, since the character after a shorter run would be of the
\* run's own class; text after the hemisphere letter is not looked at
ReMatch(parts) ==
    LET n1 == RunLen(parts, 1, Digits)
        n2 == RunLen(parts, n1 + 1, {" "})
        n3 == RunLen(parts, n1 + n2 + 1, Digits)
        at == n1 + n2 + n3 + 1
    IN IF n1 >= 1 /\ n2 >= 1 /\ n3 >= 1 /\ at <= Len(parts)
          /\ parts[at] \in {"N", "S", "E", "W"}
       THEN [matched |-> TRUE,
             group1 |-> SubSeq(parts, 1, n1),
             group2 |-> SubSeq(parts, n1 + n2 + 1, n1 + n2 + n3),
             group3 |-> parts[at]]
       ELSE [matched |-> FALSE, group1 |-> <<>>, group2 |-> <<>>, group3 |-> ""]

\* a conversion that negates for the south only
ConvertToDecimalSouthOnly(text) ==
    LET match == ReMatch(Strip(text))
        sixtieths == 60 * DigitsToInt(match.group1) + DigitsToInt(match.group2)
    IN IF ~match.matched
       THEN [called |-> TRUE, raised |-> TRUE, sixtieths |-> 0]
       ELSE [called |-> TRUE, raised |-> FALSE,
             sixtieths |-> IF match.group3 = "S" THEN 0 - sixtieths ELSE sixtieths]

ConvertToDecimal(text) ==
    LET match == ReMatch(Strip(text))
        degrees == DigitsToInt(match.group1)
        minutes == DigitsToInt(match.group2)
        direction == match.group3
        sixtieths == 60 * degrees + minutes
    IN IF ~match.matched
       THEN [called |-> TRUE, raised |-> TRUE, sixtieths |-> 0]
       ELSE [called |-> TRUE, raised |-> FALSE,
             sixtieths |-> IF direction \in {"S", "W"} THEN 0 - sixtieths
                           ELSE sixtieths]

----------------------------------------------------------------------------
(* SpecCoord: convert_to_decimal on the tokens "D M H" as the station      *)
(* table writes them, the minutes with or without a leading zero.          *)

MaxDegrees == 179

MaxMinutes == 59

DigitChar(d) ==
    CASE d = 0 -> "0" [] d = 1 -> "1" [] d = 2 -> "2" [] d = 3 -> "3"
      [] d = 4 -> "4" [] d = 5 -> "5" [] d = 6 -> "6" [] d = 7 -> "7"
      [] d = 8 -> "8" [] d = 9 -> "9"

\* the decimal digits of n
RECURSIVE IntToDigits(_)
IntToDigits(n) ==
    IF n < 10 THEN <<DigitChar(n)>>
    ELSE Append(IntToDigits(n \div 10), DigitChar(n % 10))

\* the token "D M H"; with padded, minutes below ten get a leading zero
Token(degrees, minutes, hemisphere, padded) ==
    IntToDigits(degrees) \o <<" ">>
        \o (IF padded /\ minutes < 10 THEN <<"0">> ELSE <<>>)
        \o IntToDigits(minutes) \o <<hemisphere>>

Hemispheres == {"N", "S", "E", "W"}

NotCalled == [called |-> FALSE, raised |-> FALSE, sixtieths |-> 0]

InitCoord ==
    /\ file = NoFile
    /\ ResolverIdle
    /\ RaceIdle
    /\ PoolIdle
    /\ ReportIdle
    /\ PlotIdle
    /\ StationIdle
    /\ parser_raises = FALSE
    /\ coord_src \in [degrees : 0..MaxDegrees, minutes : 0..MaxMinutes,
                      hemisphere : Hemispheres, padded : BOOLEAN]
    /\ coord = Token(coord_src.degrees, coord_src.minutes,
                     coord_src.hemisphere, coord_src.padded)
    /\ decimal = NotCalled

Convert ==
    /\ ~decimal.called
    /\ decimal' = ConvertToDecimal(coord)
    /\ UNCHANGED <<resolverVars, raceVars, poolVars, reportVars, plotVars,
                   stationVars, parser_raises, coord, coord_src>>

NextCoord == Convert

SpecCoord == InitCoord /\ [][NextCoord]_vars

----------------------------------------------------------------------------
(* Claims on SpecCoord *)

Magnitude(x) == IF x < 0 THEN 0 - x ELSE x

\* C10: for the token "D M H" the value has magnitude D + M/60 (60 * |value|
\* = 60 * D + M) and is negative exactly when H is S or W and the magnitude
\* is not zero.
C10_SignedDecimalDegrees ==
    decimal.called =>
        /\ ~decimal.raised
        /\ Magnitude(decimal.sixtieths) = 60 * coord_src.degrees + coord_src.minutes
        /\ (decimal.sixtieths < 0) <=>
              (/\ coord_src.hemisphere \in {"S", "W"}
               /\ 60 * coord_src.degrees + coord_src.minutes # 0)

\* C10 witness: "119 38W" has been converted to -(119 + 38/60).
C10_Witness ==
    /\ decimal.called
    /\ coord = <<"1", "1", "9", " ", "3", "8", "W">>
    /\ decimal.sixtieths = 0 - 7178

----------------------------------------------------------------------------
(* SpecToken: convert_to_decimal on any text over a small alphabet: a      *)
(* digit, the blank, a hemisphere letter and a letter that is none.        *)

MaxTokenLen == 5

TokenChars == {"4", " ", "N", "X"}

InitToken ==
    /\ file = NoFile
    /\ ResolverIdle
    /\ RaceIdle
    /\ PoolIdle
    /\ ReportIdle
    /\ PlotIdle
    /\ StationIdle
    /\ parser_raises = FALSE
    /\ coord_src = <<>>
    /\ coord \in SeqsOf(TokenChars, 1, MaxTokenLen)
    /\ decimal = NotCalled

NextToken == Convert

SpecToken == InitToken /\ [][NextToken]_vars

----------------------------------------------------------------------------
(* Claims on SpecToken *)

\* the text is, blanks around it aside, a run of digits, blanks, a run of
\* digits and one hemisphere letter, with nothing after the letter
ExactForm(text) ==
    LET t == Strip(text)
        n == Len(t)
    IN \E i \in 1..n, j \in 1..n :
          /\ i < j
          /\ j < n - 1
          /\ \A k \in 1..i : t[k] \in Digits
          /\ \A k \in (i + 1)..j : t[k] = " "
          /\ \A k \in (j + 1)..(n - 1) : t[k] \in Digits
          /\ t[n] \in Hemispheres

\* C11 (as stated): convert_to_decimal raises, and returns no value, for
\* every text that is not exactly degrees, blank, minutes, hemisphere letter
\* (N, S, E or W): a missing letter, non-numeric degrees, another letter and
\* characters after the hemisphere letter are all rejected.
C11_MalformedTokenRejected ==
    (decimal.called /\ ~ExactForm(coord)) => decimal.raised

----------------------------------------------------------------------------
(* station_data_us of src/helpers.py: the station table is a text, its     *)
(* lines are cut at fixed columns, the coordinates converted and the       *)
(* filters applied in the order metar, nexrad, rawinsonde, states,         *)
(* office_type.                                                            *)

STATES ==
    <<"A", "K">> :> "Alaska" @@ <<"A", "L">> :> "Alabama" @@
    <<"A", "R">> :> "Arkansas" @@ <<"A", "Z">> :> "Arizona" @@
    <<"C", "A">> :> "California" @@ <<"C", "O">> :> "Colorado" @@
    <<"C", "T">> :> "Connecticut" @@ <<"D", "E">> :> "Delaware" @@
    <<"F", "L">> :> "Florida" @@ <<"G", "A">> :> "Georgia" @@
    <<"H", "I">> :> "Hawaii" @@ <<"I", "A">> :> "Iowa" @@
    <<"I", "D">> :> "Idaho" @@ <<"I", "L">> :> "Illinois" @@
    <<"I", "N">> :> "Indiana" @@ <<"K", "S">> :> "Kansas" @@
    <<"K", "Y">> :> "Kentucky" @@ <<"L", "A">> :> "Louisiana" @@
    <<"M", "A">> :> "Massachusetts" @@ <<"M", "D">> :> "Maryland" @@
    <<"M", "E">> :> "Maine" @@ <<"M", "I">> :> "Michigan" @@
    <<"M", "N">> :> "Minnesota" @@ <<"M", "O">> :> "Missouri" @@
    <<"M", "S">> :> "Mississippi" @@ <<"M", "T">> :> "Montana" @@
    <<"N", "C">> :> "North Carolina" @@ <<"N", "D">> :> "North Dakota" @@
    <<"N", "E">> :> "Nebraska" @@ <<"N", "H">> :> "New Hampshire" @@
    <<"N", "J">> :> "New Jersey" @@ <<"N", "M">> :> "New Mexico" @@
    <<"N", "V">> :> "Nevada" @@ <<"N", "Y">> :> "New York" @@
    <<"O", "H">> :> "Ohio" @@ <<"O", "K">> :> "Oklahoma" @@
    <<"O", "R">> :> "Oregon" @@ <<"P", "A">> :> "Pennsylvania" @@
    <<"R", "I">> :> "Rhode Island" @@ <<"S", "C">> :> "South Carolina" @@
    <<"S", "D">> :> "South Dakota" @@ <<"T", "N">> :> "Tennessee" @@
    <<"T", "X">> :> "Texas" @@ <<"U", "T">> :> "Utah" @@
    <<"V", "A">> :> "Virginia" @@ <<"V", "T">> :> "Vermont" @@
    <<"W", "A">> :> "Washington" @@ <<"W", "I">> :> "Wisconsin" @@
    <<"W", "V">> :> "West Virginia" @@ <<"W", "Y">> :> "Wyoming" @@
    <<"D", "C">> :> "District of Columbia" @@ <<"A", "S">> :> "American Samoa" @@
    <<"G", "U">> :> "Guam GU" @@ <<"M", "P">> :> "Northern Mariana Islands" @@
    <<"P", "R">> :> "Puerto Rico PR" @@ <<"V", "I">> :> "U.S. Virgin Islands"

\* str.split("\n"): the lines of a text; "" splits into [""]
RECURSIVE SplitLines(_)
SplitLines(s) ==
    IF \E i \in 1..Len(s) : s[i] = "\n"
    THEN LET i == CHOOSE j \in 1..Len(s) :
                    s[j] = "\n" /\ \A k \in 1..(j - 1) : s[k] # "\n"
         IN <<SubSeq(s, 1, i - 1)>> \o SplitLines(SubSeq(s, i + 1, Len(s)))
    ELSE <<s>>

\* str.split(): the runs of characters other than white space
RECURSIVE SplitWords(_)
SplitWords(s) ==
    IF Len(s) = 0 THEN <<>>
    ELSE IF s[1] \in Whitespace THEN SplitWords(Tail(s))
    ELSE LET n == IF \E i \in 1..Len(s) : s[i] \in Whitespace
                  THEN (CHOOSE j \in 1..Len(s) :
                           s[j] \in Whitespace
                           /\ \A k \in 1..(j - 1) : s[k] \notin Whitespace) - 1
                  ELSE Len(s)
         IN <<SubSeq(s, 1, n)>> \o SplitWords(SubSeq(s, n + 1, Len(s)))

\* line[a:b]
Slice(line, a, b) ==
    SubSeq(line, a + 1, IF b < Len(line) THEN b ELSE Len(line))

\* lines = data.strip().split("\n")
TableLines(text) == SplitLines(Strip(text))

\* the condition under which the loop appends a record for the line
KeepLineAnyCountry(line) ==
    LET split_line == SplitWords(line)
    IN /\ ~(\/ (Len(line) > 0 /\ line[1] \in {"!", "#"})
            \/ Strip(line) = <<>>
            \/ Len(split_line) <= 2
            \/ split_line[1] = <<"C", "D">>)
       /\ split_line[1] \in DOMAIN STATES

KeepLine(line) ==
    LET split_line == SplitWords(line)
    IN /\ ~(\/ (Len(line) > 0 /\ line[1] \in {"!", "#"})
            \/ Strip(line) = <<>>
            \/ Len(split_line) <= 2
            \/ split_line[1] = <<"C", "D">>)
       /\ split_line[1] \in DOMAIN STATES
       /\ split_line[Len(split_line)] = <<"U", "S">>

\* line[r[0]:r[1]].strip() for a column of column_map
Column(line, r) == Strip(Slice(line, r[1], r[2]))

\* convert_to_decimal on the lat and lng columns of a line
Lat(line) == ConvertToDecimal(Column(line, <<37, 45>>))

Lng(line) == ConvertToDecimal(Column(line, <<45, 54>>))

\* the row of the frame for a kept line, flags decoded, coordinates as the
\* outcome of convert_to_decimal
Row(line) ==
    [state |-> Column(line, <<0, 2>>),
     station_name |-> Column(line, <<3, 19>>),
     icao |-> Column(line, <<20, 24>>),
     iata |-> Column(line, <<25, 30>>),
     synoptic |-> Column(line, <<31, 37>>),
     lat |-> Lat(line),
     lng |-> Lng(line),
     elevation |-> Column(line, <<54, 60>>),
     metar |-> Column(line, <<61, 64>>) = <<"X">>,
     nexrad |-> Column(line, <<64, 67>>) = <<"X">>,
     upper_air_rawinsonde |-> Column(line, <<70, 73>>) = <<"X">>,
     upper_air_wind_profiler |-> Column(line, <<70, 73>>) = <<"W">>,
     aviation_sigmet |-> Column(line, <<67, 70>>) \in {<<"V">>, <<"U">>},
     aviation_artcc |-> Column(line, <<67, 70>>) = <<"A">>,
     aviation_taf |-> Column(line, <<67, 70>>) \in {<<"T">>, <<"U">>},
     auto_asos |-> Column(line, <<73, 76>>) = <<"A">>,
     auto_awos |-> Column(line, <<73, 76>>) = <<"W">>,
     auto_meso |-> Column(line, <<73, 76>>) = <<"M">>,
     auto_human |-> Column(line, <<73, 76>>) = <<"H">>,
     auto_augmented |-> Column(line, <<73, 76>>) = <<"G">>,
     office_type_wfo |-> Column(line, <<76, 79>>) = <<"F">>,
     office_type_rfc |-> Column(line, <<76, 79>>) = <<"R">>,
     office_type_ncep |-> Column(line, <<76, 79>>) = <<"C">>,
     plotting_priority |-> Column(line, <<79, 81>>),
     state_full |-> STATES[SplitWords(line)[1]]]

\* the rows with the decimal coordinates in place of the call outcomes
Converted(rows) ==
    [i \in 1..Len(rows) |->
        [rows[i] EXCEPT !.lat = @.sixtieths, !.lng = @.sixtieths]]

Returned(df) == [raised |-> "", message |-> "", df |-> df]

Raised(exception, message) ==
    [raised |-> exception, message |-> message, df |-> <<>>]

\* the frame before the filters: the loop over the lines and the two
\* df[...].apply(convert_to_decimal), which raise what convert_to_decimal
\* raises
ReadTable(text) ==
    LET lines == TableLines(text)
        kept == SelectSeq(lines, KeepLine)
        rows == [i \in 1..Len(kept) |-> Row(kept[i])]
    IN IF \E i \in 1..Len(kept) : Lat(kept[i]).raised \/ Lng(kept[i]).raised
       THEN Raised("ValueError", "Invalid coordinate format")
       ELSE Returned(Converted(rows))

\* Python values of the arguments
PyNone == [type |-> "NoneType", bool |-> FALSE, text |-> <<>>, items |-> <<>>]

PyBool(b) == [type |-> "bool", bool |-> b, text |-> <<>>, items |-> <<>>]

PyStr(s) == [type |-> "str", bool |-> FALSE, text |-> s, items |-> <<>>]

PyInt == [type |-> "int", bool |-> FALSE, text |-> <<>>, items |-> <<>>]

PyList(l) == [type |-> "list", bool |-> FALSE, text |-> <<>>, items |-> l]

IsIn(x, l) == \E i \in 1..Len(l) : l[i] = x

MetarMessage == "metar parameter must be a boolean value (True/False)"

NexradMessage == "nexrad parameter must be a boolean value (True/False)"

RawinsondeMessage == "rawinsonde parameter must be a boolean value (True/False)"

StatesMessage ==
    "states parameter must be a list of state abbreviations (e.g., ['PA', 'NY'])"

OfficeTypeMessage == "office_type parameter must be one of: 'wfo', 'rfc', 'ncep'"

\* the filters, from the frame down: df[df[column] == value] keeps the rows
\* that pass Test; each step is handed the outcome so far and leaves an
\* exception as it is
FilterMetar(r, metar) ==
    IF r.raised # "" \/ metar.type = "NoneType" THEN r
    ELSE IF metar.type = "bool"
    THEN LET Test(row) == row.metar = metar.bool
         IN Returned(SelectSeq(r.df, Test))
    ELSE Raised("ValueError", MetarMessage)

FilterNexrad(r, nexrad) ==
    IF r.raised # "" \/ nexrad.type = "NoneType" THEN r
    ELSE IF nexrad.type = "bool"
    THEN LET Test(row) == row.nexrad = nexrad.bool
         IN Returned(SelectSeq(r.df, Test))
    ELSE Raised("ValueError", NexradMessage)

FilterRawinsonde(r, rawinsonde) ==
    IF r.raised # "" \/ rawinsonde.type = "NoneType" THEN r
    ELSE IF rawinsonde.type = "bool"
    THEN LET Test(row) == row.upper_air_rawinsonde = rawinsonde.bool
         IN Returned(SelectSeq(r.df, Test))
    ELSE Raised("ValueError", RawinsondeMessage)

FilterStates(r, states) ==
    IF r.raised # "" \/ states.type = "NoneType" THEN r
    ELSE IF states.type = "list"
    THEN LET Test(row) == IsIn(row.state, states.items)
         IN Returned(SelectSeq(r.df, Test))
    ELSE Raised("ValueError", StatesMessage)

\* office_type.lower() exists for a str only
FilterOfficeType(r, office_type) ==
    IF r.raised # "" \/ office_type.type = "NoneType" THEN r
    ELSE IF office_type.type # "str"
    THEN Raised("AttributeError", "object has no attribute 'lower'")
    ELSE IF Lower(office_type.text) = <<"w", "f", "o">>
    THEN LET Test(row) == row.office_type_wfo
         IN Returned(SelectSeq(r.df, Test))
    ELSE IF Lower(office_type.text) = <<"r", "f", "c">>
    THEN LET Test(row) == row.office_type_rfc
         IN Returned(SelectSeq(r.df, Test))
    ELSE IF Lower(office_type.text) = <<"n", "c", "e", "p">>
    THEN LET Test(row) == row.office_type_ncep
         IN Returned(SelectSeq(r.df, Test))
    ELSE Raised("ValueError", OfficeTypeMessage)

StationDataUs(text, metar, nexrad, rawinsonde, office_type, states) ==
    FilterOfficeType(
        FilterStates(
            FilterRawinsonde(
                FilterNexrad(FilterMetar(ReadTable(text), metar), nexrad),
                rawinsonde),
            states),
        office_type)

----------------------------------------------------------------------------
(* Inputs of station_data_us: lines in the layout of stations.txt          *)

\* text, left-justified in a field of the given width
Field(text, width) == text \o [i \in 1..(width - Len(text)) |-> " "]

\* a station line: the fields at the columns stations.txt puts them
Line(f) ==
    Field(f.state, 3) \o Field(f.station_name, 17) \o Field(f.icao, 6)
        \o Field(f.iata, 6) \o Field(f.synoptic, 7) \o Field(f.lat, 8)
        \o Field(f.lng, 7) \o Field(f.elevation, 8) \o Field(f.metar, 3)
        \o Field(f.nexrad, 3) \o Field(f.aviation, 3) \o Field(f.upper_air, 3)
        \o Field(f.auto, 3) \o Field(f.office_type, 2)
        \o Field(f.plotting_priority, 2) \o f.country

\* a domestic station reporting METAR
LineNewark ==
    Line([state |-> <<"N", "J">>,
         station_name |-> <<"N", "E", "W", "A", "R", "K">>,
         icao |-> <<"K", "E", "W", "R">>,
         iata |-> <<"E", "W", "R">>,
         synoptic |-> <<"7", "2", "5", "0", "2">>,
         lat |-> <<"4", "0", " ", "4", "2", "N">>,
         lng |-> <<"0", "7", "4", " ", "1", "0", "W">>,
         elevation |-> <<" ", " ", " ", " ", "9">>,
         metar |-> <<"X">>,
         nexrad |-> <<>>,
         aviation |-> <<"T">>,
         upper_air |-> <<>>,
         auto |-> <<"A">>,
         office_type |-> <<>>,
         plotting_priority |-> <<"6">>,
         country |-> <<"U", "S">>])

\* a domestic radar and upper-air site of a forecast office
LinePittsburgh ==
    Line([state |-> <<"P", "A">>,
         station_name |-> <<"P", "I", "T", "T", "S", "B", "U", "R", "G", "H">>,
         icao |-> <<"K", "P", "B", "Z">>,
         iata |-> <<>>,
         synoptic |-> <<"7", "2", "5", "2", "0">>,
         lat |-> <<"4", "0", " ", "3", "2", "N">>,
         lng |-> <<"0", "8", "0", " ", "1", "3", "W">>,
         elevation |-> <<" ", " ", "3", "6", "1">>,
         metar |-> <<>>,
         nexrad |-> <<"X">>,
         aviation |-> <<>>,
         upper_air |-> <<"X">>,
         auto |-> <<>>,
         office_type |-> <<"F">>,
         plotting_priority |-> <<"8">>,
         country |-> <<"U", "S">>])

\* a domestic station whose latitude lacks the hemisphere letter
LineNoHemisphere ==
    Line([state |-> <<"N", "J">>,
         station_name |-> <<"T", "R", "E", "N", "T", "O", "N">>,
         icao |-> <<"K", "T", "T", "N">>,
         iata |-> <<"T", "T", "N">>,
         synoptic |-> <<>>,
         lat |-> <<"4", "0", " ", "1", "7">>,
         lng |-> <<"0", "7", "4", " ", "4", "9", "W">>,
         elevation |-> <<" ", " ", " ", "6", "5">>,
         metar |-> <<"X">>,
         nexrad |-> <<>>,
         aviation |-> <<>>,
         upper_air |-> <<>>,
         auto |-> <<"A">>,
         office_type |-> <<>>,
         plotting_priority |-> <<"7">>,
         country |-> <<"U", "S">>])

\* a station of a province, outside the country
LineCalgary ==
    Line([state |-> <<"A", "B">>,
         station_name |-> <<"C", "A", "L", "G", "A", "R", "Y">>,
         icao |-> <<"C", "Y", "Y", "C">>,
         iata |-> <<"Y", "Y", "C">>,
         synoptic |-> <<"7", "1", "8", "7", "7">>,
         lat |-> <<"5", "1", " ", "0", "7", "N">>,
         lng |-> <<"1", "1", "4", " ", "0", "1", "W">>,
         elevation |-> <<" ", "1", "0", "8", "4">>,
         metar |-> <<"X">>,
         nexrad |-> <<>>,
         aviation |-> <<"T">>,
         upper_air |-> <<>>,
         auto |-> <<>>,
         office_type |-> <<>>,
         plotting_priority |-> <<"6">>,
         country |-> <<"C", "A">>])

\* a station abroad whose region code is also a state code
LinePerth ==
    Line([state |-> <<"W", "A">>,
         station_name |-> <<"P", "E", "R", "T", "H">>,
         icao |-> <<"Y", "P", "P", "H">>,
         iata |-> <<"P", "E", "R">>,
         synoptic |-> <<"9", "4", "6", "1", "0">>,
         lat |-> <<"3", "1", " ", "5", "6", "S">>,
         lng |-> <<"1", "1", "5", " ", "5", "8", "E">>,
         elevation |-> <<" ", " ", " ", "2", "0">>,
         metar |-> <<"X">>,
         nexrad |-> <<>>,
         aviation |-> <<"T">>,
         upper_air |-> <<>>,
         auto |-> <<>>,
         office_type |-> <<>>,
         plotting_priority |-> <<"6">>,
         country |-> <<"A", "U">>])

\* a comment line
LineComment ==
    <<"!", " ", "N", "J", " ", "s", "t", "a", "t", "i", "o", "n", "s", " ",
      "U", "S">>

\* a comment line starting with #
LineHash ==
    <<"#", " ", "N", "J", " ", "s", "t", "a", "t", "i", "o", "n", "s", " ",
      "U", "S">>

\* an empty line
LineBlank == <<>>

\* the column header
LineHeader ==
    <<"C", "D", " ", " ", "S", "T", "A", "T", "I", "O", "N", " ", " ", "I",
      "C", "A", "O", " ", " ", "U", "S">>

\* a line of two tokens
LineTwoTokens ==
    <<"N", "J", " ", "U", "S">>

\* "\n".join(lines)
RECURSIVE JoinLines(_)
JoinLines(lines) ==
    IF Len(lines) = 1 THEN lines[1]
    ELSE lines[1] \o <<"\n">> \o JoinLines(Tail(lines))

NotLoaded == [called |-> FALSE, raised |-> "", message |-> "", df |-> <<>>]

NoFilters ==
    [metar |-> PyNone, nexrad |-> PyNone, rawinsonde |-> PyNone,
     office_type |-> PyNone, states |-> PyNone]

\* station_data_us(metar, nexrad, rawinsonde, office_type, states)
CallStationDataUs(metar, nexrad, rawinsonde, office_type, states) ==
    /\ ~stations.called
    /\ filters' = [metar |-> metar, nexrad |-> nexrad,
                   rawinsonde |-> rawinsonde, office_type |-> office_type,
                   states |-> states]
    /\ LET r == StationDataUs(data, metar, nexrad, rawinsonde, office_type,
                              states)
       IN stations' = [called |-> TRUE, raised |-> r.raised,
                       message |-> r.message, df |-> r.df]
    /\ UNCHANGED <<resolverVars, raceVars, poolVars, reportVars, plotVars,
                   coordVars, parser_raises, data>>

----------------------------------------------------------------------------
(* SpecStations: station_data_us() without filters on any table of up to   *)
(* MaxLines lines.                                                         *)

MaxLines == 3

StationLines ==
    {LineNewark, LinePittsburgh, LineNoHemisphere, LineCalgary, LinePerth,
     LineComment, LineHash, LineBlank, LineHeader, LineTwoTokens}

InitStations ==
    /\ file = NoFile
    /\ ResolverIdle
    /\ RaceIdle
    /\ PoolIdle
    /\ ReportIdle
    /\ PlotIdle
    /\ CoordIdle
    /\ parser_raises = FALSE
    /\ data \in {JoinLines(lines) : lines \in SeqsOf(StationLines, 1, MaxLines)}
    /\ filters = NoFilters
    /\ stations = NotLoaded

NextStations == CallStationDataUs(PyNone, PyNone, PyNone, PyNone, PyNone)

SpecStations == InitStations /\ [][NextStations]_vars

----------------------------------------------------------------------------
(* Claims on SpecStations *)

\* a table line that is no comment, not blank, of more than two tokens, not
\* the header, with a recognized two-letter code first and US last
Eligible(line) ==
    LET tokens == SplitWords(line)
    IN /\ ~(Len(line) > 0 /\ line[1] \in {"!", "#"})
       /\ tokens # <<>>
       /\ Len(tokens) > 2
       /\ tokens[1] # <<"C", "D">>
       /\ Len(tokens[1]) = 2
       /\ tokens[1] \in DOMAIN STATES
       /\ tokens[Len(tokens)] = <<"U", "S">>

EligibleLines == SelectSeq(TableLines(data), Eligible)

\* both coordinate fields of the line are accepted by convert_to_decimal
Decodes(line) == ~Lat(line).raised /\ ~Lng(line).raised

\* the record is the one cut from the line
RecordOf(record, line) ==
    /\ record.state = SplitWords(line)[1]
    /\ record.state_full = STATES[SplitWords(line)[1]]
    /\ record.icao = Column(line, <<20, 24>>)
    /\ record.station_name = Column(line, <<3, 19>>)

\* C12: on a table whose eligible lines carry coordinates that decode, the
\* loader raises nothing and returns one record for each eligible line, in
\* the order of the table, and no record for any other line.
C12_RecordPerEligibleLine ==
    (stations.called /\ \A i \in 1..Len(EligibleLines) : Decodes(EligibleLines[i])) =>
        /\ stations.raised = ""
        /\ Len(stations.df) = Len(EligibleLines)
        /\ \A i \in 1..Len(EligibleLines) :
              RecordOf(stations.df[i], EligibleLines[i])

\* C12 witness: a comment line, a domestic station line and a line of a
\* station abroad have been loaded into exactly one record, the domestic one.
C12_Witness ==
    /\ stations.called
    /\ data = JoinLines(<<LineComment, LineNewark, LineCalgary>>)
    /\ stations.raised = ""
    /\ Len(stations.df) = 1
    /\ stations.df[1].icao = <<"K", "E", "W", "R">>

\* C14 (as stated): an eligible line with a latitude or longitude that does
\* not decode is skipped; the loader raises nothing and returns the records
\* of the eligible lines that decode.
C14_UndecodableLineSkipped ==
    stations.called =>
        LET decoded == SelectSeq(EligibleLines, Decodes)
        IN /\ stations.raised = ""
           /\ Len(stations.df) = Len(decoded)
           /\ \A i \in 1..Len(decoded) : RecordOf(stations.df[i], decoded[i])

----------------------------------------------------------------------------
(* SpecFilter: station_data_us with any arguments, of the expected type or *)
(* not, on a table of two well-formed domestic station lines and on a      *)
(* table without stations.                                                 *)

FilterTables == {<<LineNewark, LinePittsburgh>>, <<LineComment>>}

Flags == {PyNone, PyBool(TRUE), PyBool(FALSE), PyStr(<<"y", "e", "s">>)}

OfficeTypes ==
    {PyNone, PyStr(<<"w", "f", "o">>), PyStr(<<"W", "F", "O">>),
     PyStr(<<"r", "f", "c">>), PyStr(<<"n", "c", "e", "p">>),
     PyStr(<<"x", "y", "z">>), PyInt}

StateLists ==
    {PyNone, PyList(<<<<"N", "J">>>>), PyList(<<<<"N", "J">>, <<"P", "A">>>>),
     PyStr(<<"N", "J">>)}

InitFilter ==
    /\ file = NoFile
    /\ ResolverIdle
    /\ RaceIdle
    /\ PoolIdle
    /\ ReportIdle
    /\ PlotIdle
    /\ CoordIdle
    /\ parser_raises = FALSE
    /\ data \in {JoinLines(lines) : lines \in FilterTables}
    /\ filters = NoFilters
    /\ stations = NotLoaded

NextFilter ==
    \E metar \in Flags, nexrad \in Flags, rawinsonde \in Flags,
       office_type \in OfficeTypes, states \in StateLists :
        CallStationDataUs(metar, nexrad, rawinsonde, office_type, states)

SpecFilter == InitFilter /\ [][NextFilter]_vars

----------------------------------------------------------------------------
(* Claims on SpecFilter *)

\* the argument is given and is not a boolean
NotBoolean(value) == value.type \notin {"NoneType", "bool"}

\* the argument is given and is not a list
NotList(value) == value.type \notin {"NoneType", "list"}

\* the argument is given and is not wfo, rfc or ncep, in any case of letters
NotOfficeType(value) ==
    /\ value.type # "NoneType"
    /\ ~(/\ value.type = "str"
         /\ Lower(value.text) \in {<<"w", "f", "o">>, <<"r", "f", "c">>,
                                   <<"n", "c", "e", "p">>})

\* C13 (as stated): a call whose arguments are all absent or allowed raises
\* nothing; a call with a non-boolean metar, nexrad or rawinsonde, a non-list
\* states or an office_type, string or not, that is not wfo, rfc or ncep
\* raises a ValueError whose message names one of the offending parameters,
\* and returns no frame.
C13_InvalidFilterNamed ==
    stations.called =>
        IF \/ NotBoolean(filters.metar)
           \/ NotBoolean(filters.nexrad)
           \/ NotBoolean(filters.rawinsonde)
           \/ NotList(filters.states)
           \/ NotOfficeType(filters.office_type)
        THEN /\ stations.raised = "ValueError"
             /\ stations.df = <<>>
             /\ \/ NotBoolean(filters.metar) /\ stations.message = MetarMessage
                \/ NotBoolean(filters.nexrad) /\ stations.message = NexradMessage
                \/ NotBoolean(filters.rawinsonde)
                      /\ stations.message = RawinsondeMessage
                \/ NotList(filters.states) /\ stations.message = StatesMessage
                \/ NotOfficeType(filters.office_type)
                      /\ stations.message = OfficeTypeMessage
        ELSE stations.raised = ""

====
